---- MODULE Spec2Model ----
(***************************************************************************)
(* A model of customopt: the interval arithmetic of interval.py and the    *)
(* symbolic expression graph of sym.py (construction with eager            *)
(* simplification, val, and the memoized valgrad).                         *)
(*                                                                         *)
(* Numbers.  Python floats are modelled as exact reals of the form         *)
(* (a + b*pi)/d, written <<a, b, d>> with d > 0 and gcd(a, b, d) = 1, so   *)
(* that equal numbers are equal tuples.  Rounding is not modelled.  The    *)
(* math library is modelled on the arguments where its result is of that   *)
(* form; elsewhere the outcome is "offgrid" and the model does not take    *)
(* the step.                                                               *)
(***************************************************************************)
EXTENDS Integers, Sequences, FiniteSets, TLC

VARIABLES ivlast, heap, last, ev, chain, pdic

vars == <<ivlast, heap, last, ev, chain, pdic>>

----------------------------------------------------------------------------
(* Bounds of the model *)

\* interval endpoints are k/2 for k in -MaxEnd..MaxEnd
MaxEnd == 4
\* integer exponents are -MaxPow..MaxPow
MaxPow == 3
\* a sequence of interval operations has at most MaxChain operations
MaxChain == 2
\* an interval is operated on further while the numerators and denominators
\* of its endpoints are at most MaxMag
MaxMag == 16

----------------------------------------------------------------------------
(* Exact numbers (a + b*pi)/d *)

Abs(i) == IF i < 0 THEN -i ELSE i

RECURSIVE Gcd(_, _)
Gcd(m, n) == IF n = 0 THEN m ELSE Gcd(n, m % n)

Norm(a, b, d) ==
  LET g == Gcd(Gcd(Abs(a), Abs(b)), Abs(d))
      s == IF d < 0 THEN -1 ELSE 1
  IN  <<(s * a) \div g, (s * b) \div g, (s * d) \div g>>

Q(n) == <<n, 0, 1>>
Frac(n, d) == Norm(n, 0, d)
Zero == Q(0)
One == Q(1)

IsRat(x) == x[2] = 0
IsInteger(x) == x[2] = 0 /\ x[3] = 1

\* a real that is not of the form (a + b*pi)/d; arithmetic on it yields it
OffGrid == <<0, 0, 0>>

NAdd(x, y) ==
  IF x = OffGrid \/ y = OffGrid THEN OffGrid
  ELSE Norm(x[1] * y[3] + y[1] * x[3], x[2] * y[3] + y[2] * x[3], x[3] * y[3])
NNeg(x) == <<-x[1], -x[2], x[3]>>
NSub(x, y) == NAdd(x, NNeg(y))

\* a product of two numbers that both carry pi is not of the form (a + b*pi)/d
CanMul(x, y) == x[2] = 0 \/ y[2] = 0
NMul(x, y) ==
  IF x = OffGrid \/ y = OffGrid \/ ~CanMul(x, y) THEN OffGrid
  ELSE Norm(x[1] * y[1], x[1] * y[2] + x[2] * y[1], x[3] * y[3])

\* 1/x for a rational x # 0
NInv(x) == IF x = OffGrid \/ ~IsRat(x) THEN OffGrid ELSE Norm(x[3], 0, x[1])

\* n1/d1 < n2/d2 for d1, d2 > 0, by the Euclidean algorithm (no products)
RECURSIVE RLess(_, _, _, _)
RLess(n1, d1, n2, d2) ==
  LET f1 == n1 \div d1
      f2 == n2 \div d2
      r1 == n1 % d1
      r2 == n2 % d2
  IN  IF f1 # f2 THEN f1 < f2
      ELSE IF r2 = 0 THEN FALSE
      ELSE IF r1 = 0 THEN TRUE
      ELSE RLess(d2, r2, d1, r1)

\* the sign of a + b*pi, from 333/106 < pi < 355/113
SignPi(a, b) ==
  IF b = 0 THEN (IF a > 0 THEN 1 ELSE IF a < 0 THEN -1 ELSE 0)
  ELSE IF a = 0 THEN (IF b > 0 THEN 1 ELSE -1)
  ELSE IF (a > 0) = (b > 0) THEN (IF a > 0 THEN 1 ELSE -1)
  ELSE IF 106 * Abs(a) <= 333 * Abs(b) THEN (IF b > 0 THEN 1 ELSE -1)
  ELSE (IF a > 0 THEN 1 ELSE -1)

NLess(x, y) ==
  IF IsRat(x) /\ IsRat(y) THEN RLess(x[1], x[3], y[1], y[3])
  ELSE LET z == NSub(y, x) IN SignPi(z[1], z[2]) > 0

NLeq(x, y) == x = y \/ NLess(x, y)
NMin(x, y) == IF NLess(y, x) THEN y ELSE x
NMax(x, y) == IF NLess(x, y) THEN y ELSE x
NAbs(x) == IF NLess(x, Zero) THEN NNeg(x) ELSE x

RECURSIVE NPowNat(_, _)
NPowNat(x, k) == IF k = 0 THEN One ELSE NMul(x, NPowNat(x, k - 1))

\* the exact square root of a natural number that has one, else -1
Root(n) ==
  LET c == {r \in 0..n : r * r = n} IN IF c = {} THEN -1 ELSE CHOOSE r \in c : TRUE

Ok(v) == IF v = OffGrid THEN [st |-> "offgrid", v |-> Zero] ELSE [st |-> "ok", v |-> v]
Fail(e) == [st |-> e, v |-> Zero]

\* Python's x ** p on two floats: p an integer, or p = k/2 with x a perfect square
FloatPow(x, p) ==
  IF ~IsRat(x) /\ ~(p \in {Zero, One}) THEN Fail("offgrid")
  ELSE IF IsInteger(p) THEN
    IF p[1] >= 0 THEN Ok(NPowNat(x, p[1]))
    ELSE IF x = Zero THEN Fail("ZeroDivisionError")
    ELSE Ok(NPowNat(NInv(x), -p[1]))
  ELSE IF IsRat(p) /\ p[3] = 2 /\ ~NLess(x, Zero) THEN
    LET rn == Root(x[1])
        rd == Root(x[3])
    IN  IF rn < 0 \/ rd < 0 THEN Fail("offgrid")
        ELSE IF p[1] >= 0 THEN Ok(NPowNat(Frac(rn, rd), p[1]))
        ELSE IF rn = 0 THEN Fail("ZeroDivisionError")
        ELSE Ok(NPowNat(Frac(rd, rn), -p[1]))
  ELSE Fail("offgrid")

MathPi == <<0, 1, 1>>

\* math.acos: a domain error outside [-1, 1]
MathAcos(x) ==
  IF NLess(x, Q(-1)) \/ NLess(One, x) THEN Fail("ValueError")
  ELSE IF x = One THEN Ok(Zero)
  ELSE IF x = Frac(1, 2) THEN Ok(<<0, 1, 3>>)
  ELSE IF x = Zero THEN Ok(<<0, 1, 2>>)
  ELSE IF x = Frac(-1, 2) THEN Ok(<<0, 2, 3>>)
  ELSE IF x = Q(-1) THEN Ok(MathPi)
  ELSE Fail("offgrid")

\* math.sin and math.cos at the multiples of pi/2
MathSin(x) ==
  IF x[1] = 0 /\ x[3] \in {1, 2} THEN
    LET k == ((2 * x[2]) \div x[3]) % 4
    IN  Ok(Q(IF k = 1 THEN 1 ELSE IF k = 3 THEN -1 ELSE 0))
  ELSE Fail("offgrid")

MathCos(x) ==
  IF x[1] = 0 /\ x[3] \in {1, 2} THEN
    LET k == ((2 * x[2]) \div x[3]) % 4
    IN  Ok(Q(IF k = 0 THEN 1 ELSE IF k = 2 THEN -1 ELSE 0))
  ELSE Fail("offgrid")

----------------------------------------------------------------------------
(* interval.py *)

EpsDen == 1000000000
\* 1e-9, the lower bound of an even power of an interval that spans zero
Eps == <<1, 0, EpsDen>>

Interval(min_val, max_val) == [min_val |-> min_val, max_val |-> max_val]
Interval1(x) == Interval(x, x)

IvOk(iv) == [st |-> "ok", iv |-> iv]
IvFail(e) == [st |-> e, iv |-> Interval1(Zero)]

\* an operand is <<"Interval", iv>> or <<"scalar", x>>
AsInterval(other) == IF other[1] = "Interval" THEN other[2] ELSE Interval1(other[2])

IntervalAdd(self, other) ==
  LET o == AsInterval(other)
  IN  Interval(NAdd(self.min_val, o.min_val), NAdd(self.max_val, o.max_val))

IntervalRAdd(self, other) == IntervalAdd(self, other)

IntervalSub_MinMin(self, other) ==
  LET o == AsInterval(other)
  IN  Interval(NSub(self.min_val, o.min_val), NSub(self.max_val, o.max_val))

IntervalSub(self, other) ==
  LET o == AsInterval(other)
  IN  Interval(NSub(self.min_val, o.max_val), NSub(self.max_val, o.min_val))

IntervalRSub(self, other) == IntervalSub(Interval1(other[2]), <<"Interval", self>>)

Min4(a, b, c, d) == NMin(NMin(a, b), NMin(c, d))
Max4(a, b, c, d) == NMax(NMax(a, b), NMax(c, d))

IntervalMul(self, other) ==
  LET o == AsInterval(other)
      p1 == NMul(self.min_val, o.min_val)
      p2 == NMul(self.min_val, o.max_val)
      p3 == NMul(self.max_val, o.min_val)
      p4 == NMul(self.max_val, o.max_val)
  IN  Interval(Min4(p1, p2, p3, p4), Max4(p1, p2, p3, p4))

IntervalRMul(self, other) == IntervalMul(self, other)

IntervalTrueDiv(self, other) ==
  LET o == AsInterval(other)
  IN  IF NLeq(o.min_val, Zero) /\ NLeq(Zero, o.max_val) THEN IvFail("ValueError")
      ELSE LET reciprocal_min == NInv(o.max_val)
               reciprocal_max == NInv(o.min_val)
               p1 == NMul(self.min_val, reciprocal_min)
               p2 == NMul(self.min_val, reciprocal_max)
               p3 == NMul(self.max_val, reciprocal_min)
               p4 == NMul(self.max_val, reciprocal_max)
           IN  IvOk(Interval(Min4(p1, p2, p3, p4), Max4(p1, p2, p3, p4)))

IntervalRTrueDiv(self, other) == IntervalTrueDiv(Interval1(other[2]), <<"Interval", self>>)

RECURSIVE IntervalPow(_, _)
IntervalPow(self, power) ==
  IF power = Zero THEN IvOk(Interval(One, One))
  ELSE IF IsInteger(power) THEN
    IF power[1] > 0 THEN
      LET lo == FloatPow(self.min_val, power).v
          hi == FloatPow(self.max_val, power).v
          mm == IF NLeq(Zero, self.min_val) THEN <<lo, hi>>
                ELSE IF NLeq(self.max_val, Zero) THEN
                  (IF NLess(lo, hi) THEN <<lo, hi>> ELSE <<hi, lo>>)
                ELSE IF power[1] % 2 = 0 THEN
                  <<Eps, FloatPow(NMax(NAbs(self.min_val), NAbs(self.max_val)), power).v>>
                ELSE <<lo, hi>>
      IN  IvOk(Interval(NMin(mm[1], mm[2]), NMax(mm[1], mm[2])))
    ELSE
      IF NLeq(self.min_val, Zero) /\ NLeq(Zero, self.max_val) THEN IvFail("ValueError")
      ELSE LET r1 == NInv(self.min_val)
               r2 == NInv(self.max_val)
           IN  IntervalPow(Interval(NMin(r1, r2), NMax(r1, r2)), NAbs(power))
  ELSE
    IF NLess(self.min_val, Zero) THEN IvFail("ValueError")
    ELSE IF self.min_val = Zero /\ NLess(power, Zero) THEN IvFail("ValueError")
    ELSE LET lo == FloatPow(self.min_val, power)
             hi == FloatPow(self.max_val, power)
         IN  IF lo.st # "ok" THEN IvFail(lo.st)
             ELSE IF hi.st # "ok" THEN IvFail(hi.st)
             ELSE IvOk(Interval(NMin(lo.v, hi.v), NMax(lo.v, hi.v)))

\* a plausible slip: the endpoints are negated in place
IntervalNeg_InPlace(self) == Interval(NNeg(self.min_val), NNeg(self.max_val))

IntervalNeg(self) == Interval(NNeg(self.max_val), NNeg(self.min_val))

\* a plausible slip: the endpoints are clamped into [-1, 1] instead of failing
IntervalAcos_Clamped(x) ==
  IF NLess(x.max_val, Q(-1)) \/ NLess(One, x.min_val) THEN IvFail("ValueError")
  ELSE IvOk(Interval(MathAcos(NMin(One, x.max_val)).v, MathAcos(NMax(Q(-1), x.min_val)).v))

\* acos(x): the guard, then math.acos of each endpoint (which raises out of domain)
IntervalAcos(x) ==
  IF NLess(x.max_val, Q(-1)) \/ NLess(One, x.min_val) THEN IvFail("ValueError")
  ELSE LET new_min == MathAcos(x.max_val)
           new_max == MathAcos(x.min_val)
       IN  IF new_min.st # "ok" THEN IvFail(new_min.st)
           ELSE IF new_max.st # "ok" THEN IvFail(new_max.st)
           ELSE IvOk(Interval(new_min.v, new_max.v))

----------------------------------------------------------------------------
(* The interval machine: one call of an interval operation per step *)

Endpoints == {Frac(k, 2) : k \in -MaxEnd..MaxEnd}
Intervals == {iv \in [min_val : Endpoints, max_val : Endpoints] : NLeq(iv.min_val, iv.max_val)}
ScalarOperands == {<<"scalar", x>> : x \in Endpoints}
Operands == {<<"Interval", iv>> : iv \in Intervals} \cup ScalarOperands
Exponents == {Q(k) : k \in -MaxPow..MaxPow} \cup {Frac(1, 2), Frac(-1, 2)}

\* the concrete values sampled in an interval: the quarters it contains
SampleGrid == {Frac(k, 4) : k \in -(2 * MaxEnd)..(2 * MaxEnd)}
Samples(iv) == {x \in SampleGrid : NLeq(iv.min_val, x) /\ NLeq(x, iv.max_val)}
SamplesOf(o) == Samples(AsInterval(o))
Contains(iv, x) == NLeq(iv.min_val, x) /\ NLeq(x, iv.max_val)

IvNone == [op |-> "none", a |-> Interval1(Zero), b |-> <<"scalar", Zero>>, out |-> IvOk(Interval1(Zero))]

IvRec(op, a, b, out) == [op |-> op, a |-> a, b |-> b, out |-> out]

\* each step is one call on fresh operands; a call whose result is off the
\* number grid is not taken
IvAdd ==
  \E a \in Intervals, b \in Operands :
    /\ ivlast.op = "none"
    /\ IvOk(IntervalAdd(a, b)).st # "offgrid"
    /\ ivlast' = IvRec("add", a, b, IvOk(IntervalAdd(a, b)))
    /\ UNCHANGED <<heap, last, ev, chain, pdic>>

IvRAdd ==
  \E a \in Intervals, b \in ScalarOperands :
    /\ ivlast.op = "none"
    /\ IvOk(IntervalRAdd(a, b)).st # "offgrid"
    /\ ivlast' = IvRec("radd", a, b, IvOk(IntervalRAdd(a, b)))
    /\ UNCHANGED <<heap, last, ev, chain, pdic>>

IvSub ==
  \E a \in Intervals, b \in Operands :
    /\ ivlast.op = "none"
    /\ IvOk(IntervalSub(a, b)).st # "offgrid"
    /\ ivlast' = IvRec("sub", a, b, IvOk(IntervalSub(a, b)))
    /\ UNCHANGED <<heap, last, ev, chain, pdic>>

IvRSub ==
  \E a \in Intervals, b \in ScalarOperands :
    /\ ivlast.op = "none"
    /\ IvOk(IntervalRSub(a, b)).st # "offgrid"
    /\ ivlast' = IvRec("rsub", a, b, IvOk(IntervalRSub(a, b)))
    /\ UNCHANGED <<heap, last, ev, chain, pdic>>

IvMul ==
  \E a \in Intervals, b \in Operands :
    /\ ivlast.op = "none"
    /\ IvOk(IntervalMul(a, b)).st # "offgrid"
    /\ ivlast' = IvRec("mul", a, b, IvOk(IntervalMul(a, b)))
    /\ UNCHANGED <<heap, last, ev, chain, pdic>>

IvRMul ==
  \E a \in Intervals, b \in ScalarOperands :
    /\ ivlast.op = "none"
    /\ IvOk(IntervalRMul(a, b)).st # "offgrid"
    /\ ivlast' = IvRec("rmul", a, b, IvOk(IntervalRMul(a, b)))
    /\ UNCHANGED <<heap, last, ev, chain, pdic>>

IvTrueDiv ==
  \E a \in Intervals, b \in Operands :
    /\ ivlast.op = "none"
    /\ IntervalTrueDiv(a, b).st # "offgrid"
    /\ ivlast' = IvRec("truediv", a, b, IntervalTrueDiv(a, b))
    /\ UNCHANGED <<heap, last, ev, chain, pdic>>

IvRTrueDiv ==
  \E a \in Intervals, b \in ScalarOperands :
    /\ ivlast.op = "none"
    /\ IntervalRTrueDiv(a, b).st # "offgrid"
    /\ ivlast' = IvRec("rtruediv", a, b, IntervalRTrueDiv(a, b))
    /\ UNCHANGED <<heap, last, ev, chain, pdic>>

IvPow ==
  \E a \in Intervals, b \in {<<"scalar", p>> : p \in Exponents} :
    /\ ivlast.op = "none"
    /\ IntervalPow(a, b[2]).st # "offgrid"
    /\ ivlast' = IvRec("pow", a, b, IntervalPow(a, b[2]))
    /\ UNCHANGED <<heap, last, ev, chain, pdic>>

IvNeg ==
  \E a \in Intervals, b \in {<<"scalar", Zero>>} :
    /\ ivlast.op = "none"
    /\ IvOk(IntervalNeg(a)).st # "offgrid"
    /\ ivlast' = IvRec("neg", a, b, IvOk(IntervalNeg(a)))
    /\ UNCHANGED <<heap, last, ev, chain, pdic>>

IvAcos ==
  \E a \in Intervals, b \in {<<"scalar", Zero>>} :
    /\ ivlast.op = "none"
    /\ IntervalAcos(a).st # "offgrid"
    /\ ivlast' = IvRec("acos", a, b, IntervalAcos(a))
    /\ UNCHANGED <<heap, last, ev, chain, pdic>>

HeapNone == <<>>
ChainNone == [iv |-> Interval1(Zero), n |-> 0, st |-> "ok"]
PdicNone == [in |-> <<>>, done |-> FALSE, out |-> [vals |-> <<>>, map |-> <<>>]]
LastNone == [op |-> "none", self |-> 0, other |-> [t |-> "num", i |-> 0, x |-> Zero],
             res |-> [t |-> "num", i |-> 0, x |-> Zero], err |-> "ok", pre |-> 0]
EvNone == [op |-> "none", root |-> 0, dic |-> <<>>, n |-> 0,
           out |-> [st |-> "ok", val |-> Zero, grad |-> <<>>, cache |-> <<>>, cnt |-> <<>>]]

InitInterval ==
  /\ ivlast = IvNone
  /\ heap = HeapNone
  /\ last = LastNone
  /\ ev = EvNone
  /\ chain = ChainNone
  /\ pdic = PdicNone

NextInterval ==
  \/ IvAdd
  \/ IvRAdd
  \/ IvSub
  \/ IvRSub
  \/ IvMul
  \/ IvRMul
  \/ IvTrueDiv
  \/ IvRTrueDiv
  \/ IvPow
  \/ IvNeg
  \/ IvAcos

SpecInterval == InitInterval /\ [][NextInterval]_vars

----------------------------------------------------------------------------
(* Sequences of interval operations: chain.iv is the Interval the last        *)
(* operation returned, and the next operation is applied to it.             *)

Small(x) == Abs(x[1]) <= MaxMag /\ x[3] <= MaxMag

\* the other operand: a fresh interval, a plain scalar, or chain.iv itself
ChainOperands == Operands \cup {<<"Interval", chain.iv>>}

\* a further operation is applied to an interval that was returned
CanChain ==
  /\ chain.st = "ok"
  /\ chain.n < MaxChain
  /\ Small(chain.iv.min_val) /\ Small(chain.iv.max_val)

\* the operation returns out.iv or raises out.st
Chained(out) ==
  /\ out.st # "offgrid"
  /\ chain' = [iv |-> out.iv, n |-> chain.n + 1, st |-> out.st]
  /\ UNCHANGED <<ivlast, heap, last, ev, pdic>>

ChAdd == \E b \in ChainOperands : CanChain /\ Chained(IvOk(IntervalAdd(chain.iv, b)))
ChRAdd == \E b \in ScalarOperands : CanChain /\ Chained(IvOk(IntervalRAdd(chain.iv, b)))
ChSub == \E b \in ChainOperands : CanChain /\ Chained(IvOk(IntervalSub(chain.iv, b)))
ChRSub == \E b \in ScalarOperands : CanChain /\ Chained(IvOk(IntervalRSub(chain.iv, b)))
ChMul == \E b \in ChainOperands : CanChain /\ Chained(IvOk(IntervalMul(chain.iv, b)))
ChRMul == \E b \in ScalarOperands : CanChain /\ Chained(IvOk(IntervalRMul(chain.iv, b)))
ChTrueDiv == \E b \in ChainOperands : CanChain /\ Chained(IntervalTrueDiv(chain.iv, b))
ChRTrueDiv == \E b \in ScalarOperands : CanChain /\ Chained(IntervalRTrueDiv(chain.iv, b))
ChPow == \E p \in Exponents : CanChain /\ Chained(IntervalPow(chain.iv, p))
ChNeg == CanChain /\ Chained(IvOk(IntervalNeg(chain.iv)))

\* the sequence starts from any Interval(min_val, max_val) with min_val <= max_val
InitChain ==
  /\ chain \in {[iv |-> iv, n |-> 0, st |-> "ok"] : iv \in Intervals}
  /\ ivlast = IvNone
  /\ heap = HeapNone
  /\ last = LastNone
  /\ ev = EvNone
  /\ pdic = PdicNone

NextChain ==
  \/ ChAdd
  \/ ChRAdd
  \/ ChSub
  \/ ChRSub
  \/ ChMul
  \/ ChRMul
  \/ ChTrueDiv
  \/ ChRTrueDiv
  \/ ChPow
  \/ ChNeg

SpecChain == InitChain /\ [][NextChain]_vars

----------------------------------------------------------------------------
(* Claims about interval.py *)

\* C1: soundness of the interval power: for every integer exponent p for
\* which A ** p does not raise and every concrete a in A, a^p lies inside A ** p.
C1_PowSound ==
  (ivlast.op = "pow" /\ IsInteger(ivlast.b[2]) /\ ivlast.out.st = "ok") =>
    \A x \in Samples(ivlast.a) : Contains(ivlast.out.iv, FloatPow(x, ivlast.b[2]).v)

\* C2: soundness of +, - and *: for concrete a in A and b in B (B an interval
\* or a plain scalar, on either side), a+b, a-b, a*b lie inside A+B, A-B, A*B.
C2_ArithSound ==
  LET r == ivlast.out.iv
      A == Samples(ivlast.a)
      B == SamplesOf(ivlast.b)
  IN  /\ ivlast.op \in {"add", "radd"} => \A x \in A, y \in B : Contains(r, NAdd(x, y))
      /\ ivlast.op = "sub" => \A x \in A, y \in B : Contains(r, NSub(x, y))
      /\ ivlast.op = "rsub" => \A x \in A, y \in B : Contains(r, NSub(y, x))
      /\ ivlast.op \in {"mul", "rmul"} => \A x \in A, y \in B : Contains(r, NMul(x, y))

\* C2 witness: the scalar 2 minus a non-degenerate interval has been computed
C2_Witness_RSub ==
  /\ ivlast.op = "rsub"
  /\ NLess(ivlast.a.min_val, ivlast.a.max_val)
  /\ ivlast.b[2] = Q(2)

\* C8: the interval arccosine is strict: it fails whenever an endpoint is
\* outside [-1, 1]; inside it returns (acos(max), acos(min)) with min <= max,
\* and Interval(-1, 1) gives (0, pi).
C8_AcosStrict ==
  ivlast.op = "acos" =>
    LET x == ivlast.a
        inside == NLeq(Q(-1), x.min_val) /\ NLeq(x.max_val, One)
    IN  /\ ~inside => ivlast.out.st = "ValueError"
        /\ inside => /\ ivlast.out.st = "ok"
                     /\ ivlast.out.iv = Interval(MathAcos(x.max_val).v, MathAcos(x.min_val).v)
                     /\ NLeq(ivlast.out.iv.min_val, ivlast.out.iv.max_val)
        /\ x = Interval(Q(-1), One) => ivlast.out.iv = Interval(Zero, MathPi)
        /\ x = Interval(Q(-2), Frac(1, 2)) => ivlast.out.st = "ValueError"

\* C8 witness: acos of an interval with one endpoint inside and one outside
\* the domain has been called and failed
C8_Witness ==
  /\ ivlast.op = "acos"
  /\ ivlast.a = Interval(Q(-2), Frac(1, 2))
  /\ ivlast.out.st = "ValueError"

----------------------------------------------------------------------------
(* sym.py: the expression graph.  A node's identity (its key, id(self)) is  *)
(* its index in heap; a value is a node or a plain scalar.                  *)

Node(i) == [t |-> "node", i |-> i, x |-> Zero]
Num(x) == [t |-> "num", i |-> 0, x |-> x]

\* isconst(x): x is a plain scalar (the function is imported from matrix.py)
IsConst(v) == v.t = "num"

\* other == k for a number k: a node has no __eq__ and equals no number
EqNum(v, k) == v.t = "num" /\ v.x = k

SymNode(name) == [kind |-> "Sym", name |-> name, l |-> <<>>, c |-> Zero, a |-> 0, b |-> Num(Zero)]
AddNode(l, c) == [kind |-> "Add", name |-> "", l |-> l, c |-> c, a |-> 0, b |-> Num(Zero)]
MulNode(l, c) == [kind |-> "Mul", name |-> "", l |-> l, c |-> c, a |-> 0, b |-> Num(Zero)]
PowNode(a, b) == [kind |-> "Pow", name |-> "", l |-> <<>>, c |-> Zero, a |-> a, b |-> b]
SinNode(a) == [kind |-> "Sin", name |-> "", l |-> <<>>, c |-> Zero, a |-> a, b |-> Num(Zero)]
CosNode(a) == [kind |-> "Cos", name |-> "", l |-> <<>>, c |-> Zero, a |-> a, b |-> Num(Zero)]
AcosNode(a) == [kind |-> "Acos", name |-> "", l |-> <<>>, c |-> Zero, a |-> a, b |-> Num(Zero)]

\* the outcome of a construction: the heap after it, and the value returned or
\* the exception raised
Alloc(h, node) == [heap |-> Append(h, node), res |-> Node(Len(h) + 1), err |-> "ok"]
Ret(h, v) == [heap |-> h, res |-> v, err |-> "ok"]
Raise(h, e) == [heap |-> h, res |-> Num(Zero), err |-> e]

\* a plausible slip: the 0 shortcut is missing
SymAdd_NoZero(h, self, other) ==
  IF h[self].kind = "Add" THEN
    IF other.t = "node" /\ h[other.i].kind = "Add" THEN
      Alloc(h, AddNode(h[self].l \o h[other.i].l, NAdd(h[self].c, h[other.i].c)))
    ELSE IF IsConst(other) THEN Alloc(h, AddNode(h[self].l, NAdd(h[self].c, other.x)))
    ELSE Alloc(h, AddNode(Append(h[self].l, other.i), h[self].c))
  ELSE IF IsConst(other) THEN Alloc(h, AddNode(<<self>>, other.x))
  ELSE Alloc(h, AddNode(<<self, other.i>>, Zero))

\* a plausible slip: an Add is extended by wrapping it instead of flattening
SymAdd_Nest(h, self, other) ==
  IF EqNum(other, Zero) THEN Ret(h, Node(self))
  ELSE IF IsConst(other) THEN Alloc(h, AddNode(<<self>>, other.x))
  ELSE Alloc(h, AddNode(<<self, other.i>>, Zero))

SymAdd(h, self, other) ==
  IF EqNum(other, Zero) THEN Ret(h, Node(self))
  ELSE IF h[self].kind = "Add" THEN
    IF other.t = "node" /\ h[other.i].kind = "Add" THEN
      Alloc(h, AddNode(h[self].l \o h[other.i].l, NAdd(h[self].c, h[other.i].c)))
    ELSE IF IsConst(other) THEN Alloc(h, AddNode(h[self].l, NAdd(h[self].c, other.x)))
    ELSE Alloc(h, AddNode(Append(h[self].l, other.i), h[self].c))
  ELSE IF IsConst(other) THEN Alloc(h, AddNode(<<self>>, other.x))
  ELSE Alloc(h, AddNode(<<self, other.i>>, Zero))

SymRAdd(h, self, other) == SymAdd(h, self, other)

SymMul(h, self, other) ==
  IF EqNum(other, One) THEN Ret(h, Node(self))
  ELSE IF EqNum(other, Zero) THEN Ret(h, Num(Zero))
  ELSE IF h[self].kind = "Mul" THEN
    IF other.t = "node" /\ h[other.i].kind = "Mul" THEN
      Alloc(h, MulNode(h[self].l \o h[other.i].l, NMul(h[self].c, h[other.i].c)))
    ELSE IF IsConst(other) THEN Alloc(h, MulNode(h[self].l, NMul(h[self].c, other.x)))
    ELSE Alloc(h, MulNode(Append(h[self].l, other.i), h[self].c))
  ELSE IF IsConst(other) THEN Alloc(h, MulNode(<<self>>, other.x))
  ELSE Alloc(h, MulNode(<<self, other.i>>, One))

SymRMul(h, self, other) == SymMul(h, self, other)

SymNeg(h, self) == SymMul(h, self, Num(Q(-1)))

\* Python's unary minus and its * on two values (a node or a number each)
PyNeg(h, v) == IF v.t = "num" THEN Ret(h, Num(NNeg(v.x))) ELSE SymNeg(h, v.i)

PyMul(h, u, v) ==
  IF u.t = "node" THEN SymMul(h, u.i, v)
  ELSE IF v.t = "node" THEN SymRMul(h, v.i, u)
  ELSE Ret(h, Num(NMul(u.x, v.x)))

SymSub(h, self, other) ==
  IF EqNum(other, Zero) THEN Ret(h, Node(self))
  ELSE LET m == PyNeg(h, other) IN SymAdd(m.heap, self, m.res)

SymRSub(h, self, other) ==
  IF EqNum(other, Zero) THEN Ret(h, Node(self))
  ELSE LET m == SymNeg(h, self) IN SymAdd(m.heap, m.res.i, other)

RECURSIVE SymPow(_, _, _)

\* a plausible slip: a Pow is raised by wrapping it
SymPow_Nest(h, self, other) ==
  IF EqNum(other, Zero) THEN Ret(h, Num(One))
  ELSE IF EqNum(other, One) THEN Ret(h, Node(self))
  ELSE Alloc(h, PowNode(self, other))

SymPow(h, self, other) ==
  IF EqNum(other, Zero) THEN Ret(h, Num(One))
  ELSE IF EqNum(other, One) THEN Ret(h, Node(self))
  ELSE IF h[self].kind = "Pow" THEN
    LET m == PyMul(h, h[self].b, other) IN SymPow(m.heap, h[self].a, m.res)
  ELSE Alloc(h, PowNode(self, other))

SymTrueDiv(h, self, other) ==
  IF EqNum(other, One) THEN Ret(h, Node(self))
  ELSE IF IsConst(other) THEN
    IF other.x = Zero THEN Raise(h, "ZeroDivisionError")
    ELSE SymMul(h, self, Num(NInv(other.x)))
  ELSE LET m == SymPow(h, other.i, Num(Q(-1))) IN SymMul(m.heap, self, m.res)

\* Sym.sin, Sym.cos, Sym.acos: the math function on a scalar, else a new node
NumOut(h, r) == IF r.st = "ok" THEN Ret(h, Num(r.v)) ELSE Raise(h, r.st)
SymSin(h, x) == IF IsConst(x) THEN NumOut(h, MathSin(x.x)) ELSE Alloc(h, SinNode(x.i))
SymCos(h, x) == IF IsConst(x) THEN NumOut(h, MathCos(x.x)) ELSE Alloc(h, CosNode(x.i))
SymAcos(h, x) == IF IsConst(x) THEN NumOut(h, MathAcos(x.x)) ELSE Alloc(h, AcosNode(x.i))

----------------------------------------------------------------------------
(* sym.py: val and valgrad *)

\* dic is [vals |-> name -> number, map |-> name -> slot] (dic[name], dic['map'])

RECURSIVE SymVal(_, _, _)
RECURSIVE ValSum(_, _, _, _, _)
RECURSIVE ValProd(_, _, _, _, _)

\* Acos.val on the operand's value v
AcosVal(v) ==
  IF NLeq(One, v) THEN Ok(Zero)
  ELSE IF NLeq(v, Q(-1)) THEN Ok(MathPi)
  ELSE MathAcos(v)

\* val += i.val(dic) for the operands l[k..]
ValSum(h, l, k, acc, dic) ==
  IF acc.st # "ok" \/ k > Len(l) THEN acc
  ELSE LET v == SymVal(h, l[k], dic)
       IN  ValSum(h, l, k + 1, IF v.st # "ok" THEN v ELSE Ok(NAdd(acc.v, v.v)), dic)

\* val *= i.val(dic) for the operands l[k..]
ValProd(h, l, k, acc, dic) ==
  IF acc.st # "ok" \/ k > Len(l) THEN acc
  ELSE LET v == SymVal(h, l[k], dic)
       IN  ValProd(h, l, k + 1, IF v.st # "ok" THEN v ELSE Ok(NMul(acc.v, v.v)), dic)

SymVal(h, i, dic) ==
  LET nd == h[i]
  IN  CASE nd.kind = "Sym" ->
             IF nd.name \in DOMAIN dic.vals THEN Ok(dic.vals[nd.name]) ELSE Fail("KeyError")
        [] nd.kind = "Add" -> ValSum(h, nd.l, 1, Ok(nd.c), dic)
        [] nd.kind = "Mul" -> ValProd(h, nd.l, 1, Ok(nd.c), dic)
        [] nd.kind = "Pow" ->
             LET va == SymVal(h, nd.a, dic)
             IN  IF va.st # "ok" THEN va
                 ELSE IF nd.b.t = "node" THEN Fail("TypeError")
                 ELSE FloatPow(va.v, nd.b.x)
        [] nd.kind = "Sin" ->
             LET va == SymVal(h, nd.a, dic) IN IF va.st # "ok" THEN va ELSE MathSin(va.v)
        [] nd.kind = "Cos" ->
             LET va == SymVal(h, nd.a, dic) IN IF va.st # "ok" THEN va ELSE MathCos(va.v)
        [] nd.kind = "Acos" ->
             LET va == SymVal(h, nd.a, dic) IN IF va.st # "ok" THEN va ELSE AcosVal(va.v)

SymEpsDen == 1000000000
\* 1e-9, the floor of the denominator of the arccosine's derivative
SymEps == <<1, 0, SymEpsDen>>

Zeros(n) == [i \in 1..n |-> Zero]

\* the outcome of valgrad: (val, grad) or the exception, with the cache and
\* the evaluation counters (cnt[i]: how often node i's result was computed)
VgFail(e, s) == [st |-> e, val |-> Zero, grad |-> <<>>, cache |-> s.cache, cnt |-> s.cnt]
VgRet(val, grad, s) == [st |-> "ok", val |-> val, grad |-> grad, cache |-> s.cache, cnt |-> s.cnt]

\* cache[self.key] = (val, grad); return val, grad
VgStore(key, val, grad, s) ==
  IF val = OffGrid \/ \E i \in DOMAIN grad : grad[i] = OffGrid THEN VgFail("offgrid", s)
  ELSE [st |-> "ok", val |-> val, grad |-> grad,
        cache |-> (key :> <<val, grad>>) @@ s.cache, cnt |-> s.cnt]

CacheHit_Never(cache, key) == FALSE

\* if self.key in cache
CacheHit(cache, key) == key \in DOMAIN cache

\* a plausible slip: the arccosine of the value is taken before the domain test
AcosLocal_Strict(va, ga, n) ==
  LET a == MathAcos(va)
  IN  IF a.st # "ok" THEN [st |-> a.st, val |-> Zero, grad |-> <<>>]
      ELSE IF NLeq(One, va) \/ NLeq(va, Q(-1)) THEN [st |-> "ok", val |-> a.v, grad |-> Zeros(n)]
      ELSE LET root == FloatPow(NSub(One, NMul(va, va)), Frac(1, 2))
           IN  IF root.st # "ok" THEN [st |-> root.st, val |-> Zero, grad |-> <<>>]
               ELSE LET den == NMax(SymEps, root.v)
                    IN  [st |-> "ok", val |-> a.v,
                         grad |-> [i \in 1..n |-> NMul(NNeg(ga[i]), NInv(den))]]

\* Acos.valgrad after the operand's (va, ga): saturation, else the derivative
AcosLocal(va, ga, n) ==
  IF NLeq(One, va) THEN [st |-> "ok", val |-> Zero, grad |-> Zeros(n)]
  ELSE IF NLeq(va, Q(-1)) THEN [st |-> "ok", val |-> MathPi, grad |-> Zeros(n)]
  ELSE LET a == MathAcos(va)
           root == FloatPow(NSub(One, NMul(va, va)), Frac(1, 2))
       IN  IF a.st # "ok" THEN [st |-> a.st, val |-> Zero, grad |-> <<>>]
           ELSE IF root.st # "ok" THEN [st |-> root.st, val |-> Zero, grad |-> <<>>]
           ELSE LET den == NMax(SymEps, root.v)
                IN  [st |-> "ok", val |-> a.v,
                     grad |-> [i \in 1..n |-> NMul(NNeg(ga[i]), NInv(den))]]

RECURSIVE SumVals(_, _, _)
SumVals(c, vals, k) == IF k > Len(vals) THEN c ELSE SumVals(NAdd(c, vals[k]), vals, k + 1)

RECURSIVE SumGrads(_, _, _, _)
SumGrads(acc, grads, k, i) ==
  IF k > Len(grads) THEN acc ELSE SumGrads(NAdd(acc, grads[k][i]), grads, k + 1, i)

RECURSIVE ProdVals(_, _, _)
ProdVals(c, vals, k) == IF k > Len(vals) THEN c ELSE ProdVals(NMul(c, vals[k]), vals, k + 1)

\* a product that does not leave operand k out
RECURSIVE ProdExcept_All(_, _, _, _)
ProdExcept_All(c, vals, k, j) ==
  IF j > Len(vals) THEN c ELSE ProdExcept_All(NMul(c, vals[j]), vals, k, j + 1)

\* prod = self.c; for j # k: prod *= vals[j]
RECURSIVE ProdExcept(_, _, _, _)
ProdExcept(c, vals, k, j) ==
  IF j > Len(vals) THEN c
  ELSE ProdExcept(IF j # k THEN NMul(c, vals[j]) ELSE c, vals, k, j + 1)

\* grad[i] += grads[k][i]*prod over the operands k
RECURSIVE MulGrad(_, _, _, _, _, _)
MulGrad(acc, c, vals, grads, k, i) ==
  IF k > Len(vals) THEN acc
  ELSE MulGrad(NAdd(acc, NMul(grads[k][i], ProdExcept(c, vals, k, 1))), c, vals, grads, k + 1, i)

RECURSIVE SymValgrad(_, _, _, _, _)
RECURSIVE VgList(_, _, _, _, _, _)

\* v_, g_ = i.valgrad(dic, n, cache) for the operands l[k..], in order
VgList(h, l, k, dic, n, r) ==
  IF r.st # "ok" \/ k > Len(l) THEN r
  ELSE LET c == SymValgrad(h, l[k], dic, n, [cache |-> r.cache, cnt |-> r.cnt])
       IN  VgList(h, l, k + 1, dic, n,
                  [st |-> c.st, vals |-> Append(r.vals, c.val), grads |-> Append(r.grads, c.grad),
                   cache |-> c.cache, cnt |-> c.cnt])

SymValgrad(h, i, dic, n, s0) ==
  IF CacheHit(s0.cache, i) THEN VgRet(s0.cache[i][1], s0.cache[i][2], s0)
  ELSE
    LET nd == h[i]
        s == [s0 EXCEPT !.cnt[i] = @ + 1]
    IN  CASE nd.kind = "Sym" ->
               IF nd.name \in DOMAIN dic.map /\ dic.map[nd.name] >= n THEN VgFail("IndexError", s)
               ELSE IF nd.name \notin DOMAIN dic.vals THEN VgFail("KeyError", s)
               ELSE VgStore(i, dic.vals[nd.name],
                            IF nd.name \in DOMAIN dic.map
                            THEN [Zeros(n) EXCEPT ![dic.map[nd.name] + 1] = One]
                            ELSE Zeros(n), s)
          [] nd.kind = "Add" ->
               LET r == VgList(h, nd.l, 1, dic, n,
                               [st |-> "ok", vals |-> <<>>, grads |-> <<>>, cache |-> s.cache, cnt |-> s.cnt])
               IN  IF r.st # "ok" THEN VgFail(r.st, r)
                   ELSE VgStore(i, SumVals(nd.c, r.vals, 1),
                                [j \in 1..n |-> SumGrads(Zero, r.grads, 1, j)], r)
          [] nd.kind = "Mul" ->
               LET r == VgList(h, nd.l, 1, dic, n,
                               [st |-> "ok", vals |-> <<>>, grads |-> <<>>, cache |-> s.cache, cnt |-> s.cnt])
               IN  IF r.st # "ok" THEN VgFail(r.st, r)
                   ELSE VgStore(i, ProdVals(nd.c, r.vals, 1),
                                [j \in 1..n |-> MulGrad(Zero, nd.c, r.vals, r.grads, 1, j)], r)
          [] nd.kind = "Pow" ->
               LET a == SymValgrad(h, nd.a, dic, n, s)
               IN  IF a.st # "ok" THEN a
                   ELSE IF nd.b.t = "node" THEN VgFail("TypeError", a)
                   ELSE LET val == FloatPow(a.val, nd.b.x)
                            d == FloatPow(a.val, NSub(nd.b.x, One))
                        IN  IF val.st # "ok" THEN VgFail(val.st, a)
                            ELSE IF d.st # "ok" THEN VgFail(d.st, a)
                            ELSE VgStore(i, val.v,
                                         [j \in 1..n |-> NMul(NMul(nd.b.x, d.v), a.grad[j])], a)
          [] nd.kind = "Sin" ->
               LET a == SymValgrad(h, nd.a, dic, n, s)
               IN  IF a.st # "ok" THEN a
                   ELSE LET val == MathSin(a.val)
                            d == MathCos(a.val)
                        IN  IF val.st # "ok" THEN VgFail(val.st, a)
                            ELSE VgStore(i, val.v, [j \in 1..n |-> NMul(d.v, a.grad[j])], a)
          [] nd.kind = "Cos" ->
               LET a == SymValgrad(h, nd.a, dic, n, s)
               IN  IF a.st # "ok" THEN a
                   ELSE LET val == MathCos(a.val)
                            d == MathSin(a.val)
                        IN  IF val.st # "ok" THEN VgFail(val.st, a)
                            ELSE VgStore(i, val.v, [j \in 1..n |-> NMul(NNeg(d.v), a.grad[j])], a)
          [] nd.kind = "Acos" ->
               LET a == SymValgrad(h, nd.a, dic, n, s)
               IN  IF a.st # "ok" THEN a
                   ELSE LET loc == AcosLocal(a.val, a.grad, n)
                        IN  IF loc.st # "ok" THEN VgFail(loc.st, a)
                            ELSE VgStore(i, loc.val, loc.grad, a)

----------------------------------------------------------------------------
(* The expression machine: an expression is built on top of the sample      *)
(* expressions by one construction call, and is then evaluated.             *)

\* plain scalars given to the construction operations are -1..MaxScalar
MaxScalar == 3
\* the variables are bound to -MaxVal..MaxVal
MaxVal == 1
\* a group given to parsedic has at most MaxLen scalars
MaxLen == 11
\* a dictionary given to parsedic has at most MaxKeys keys
MaxKeys == 2

Scalars == {Num(Q(k)) : k \in -1..MaxScalar}
Nodes == {Node(i) : i \in 1..Len(heap)}
Values == Nodes \cup Scalars

\* the sample expressions, built by the construction operations themselves:
\*   1: x   2: y   3: x + y   4: (x + y) + 2   5: x*y   6: 2*x
\*   7: x**2   8: y**-1   9: sin(x)   10: cos(y)   11: acos(x)
\*   12: (x**2)**3
SampleHeap ==
  LET h2 == <<SymNode("x"), SymNode("y")>>
      h3 == SymAdd(h2, 1, Node(2)).heap
      h4 == SymAdd(h3, 3, Num(Q(2))).heap
      h5 == SymMul(h4, 1, Node(2)).heap
      h6 == SymRMul(h5, 1, Num(Q(2))).heap
      h7 == SymPow(h6, 1, Num(Q(2))).heap
      h8 == SymPow(h7, 2, Num(Q(-1))).heap
      h9 == SymSin(h8, Node(1)).heap
      h10 == SymCos(h9, Node(2)).heap
      h11 == SymAcos(h10, Node(1)).heap
  IN  SymPow(h11, 7, Num(Q(3))).heap

LastRec(op, self, other, r) ==
  [op |-> op, self |-> self, other |-> other, res |-> r.res, err |-> r.err, pre |-> Len(heap)]

\* one construction call: it allocates in the heap and returns or raises
Built(op, self, other, r) ==
  /\ last.op = "none"
  /\ ev.op = "none"
  /\ r.err # "offgrid"
  /\ heap' = r.heap
  /\ last' = LastRec(op, self, other, r)
  /\ UNCHANGED <<ev, ivlast, chain, pdic>>

DoAdd ==
  \E self \in 1..Len(heap), other \in Values :
    Built("add", self, other, SymAdd(heap, self, other))

DoRAdd ==
  \E self \in 1..Len(heap), other \in Scalars :
    Built("radd", self, other, SymRAdd(heap, self, other))

DoMul ==
  \E self \in 1..Len(heap), other \in Values :
    Built("mul", self, other, SymMul(heap, self, other))

DoRMul ==
  \E self \in 1..Len(heap), other \in Scalars :
    Built("rmul", self, other, SymRMul(heap, self, other))

DoNeg ==
  \E self \in 1..Len(heap) :
    Built("neg", self, Num(Zero), SymNeg(heap, self))

DoSub ==
  \E self \in 1..Len(heap), other \in Values :
    Built("sub", self, other, SymSub(heap, self, other))

DoRSub ==
  \E self \in 1..Len(heap), other \in Scalars :
    Built("rsub", self, other, SymRSub(heap, self, other))

DoPow ==
  \E self \in 1..Len(heap), other \in Values :
    Built("pow", self, other, SymPow(heap, self, other))

DoTrueDiv ==
  \E self \in 1..Len(heap), other \in Values :
    Built("truediv", self, other, SymTrueDiv(heap, self, other))

DoSin ==
  \E x \in Values : Built("sin", 0, x, SymSin(heap, x))

DoCos ==
  \E x \in Values : Built("cos", 0, x, SymCos(heap, x))

DoAcos ==
  \E x \in Values : Built("acos", 0, x, SymAcos(heap, x))

\* the bindings: x and y, or x alone, with the index map that parsedic builds
\* for plain scalars (slot order is the order of the names)
EnvVals == {Q(k) : k \in -MaxVal..MaxVal}
Envs ==
  {[vals |-> f, map |-> [nm \in DOMAIN f |-> IF nm = "x" THEN 0 ELSE 1]] :
     f \in [{"x", "y"} -> EnvVals] \cup [{"x"} -> EnvVals]}
Dims == {2, 3}

\* the expression evaluated: the one just built, or any sample expression
Roots ==
  IF last.op = "none" THEN 1..Len(heap)
  ELSE IF last.err = "ok" /\ last.res.t = "node" THEN {last.res.i}
  ELSE {}

DoVal ==
  \E root \in Roots, dic \in Envs :
    LET r == SymVal(heap, root, dic)
    IN  /\ ev.op = "none"
        /\ r.st # "offgrid"
        /\ ev' = [op |-> "val", root |-> root, dic |-> dic, n |-> 0,
                  out |-> [st |-> r.st, val |-> r.v, grad |-> <<>>, cache |-> <<>>, cnt |-> <<>>]]
        /\ UNCHANGED <<heap, last, ivlast, chain, pdic>>

\* valgrad(dic, n, cache) with a fresh cache
DoValgrad ==
  \E root \in Roots, dic \in Envs, n \in Dims :
    LET r == SymValgrad(heap, root, dic, n, [cache |-> <<>>, cnt |-> [i \in 1..Len(heap) |-> 0]])
    IN  /\ ev.op = "none"
        /\ r.st # "offgrid"
        /\ ev' = [op |-> "valgrad", root |-> root, dic |-> dic, n |-> n, out |-> r]
        /\ UNCHANGED <<heap, last, ivlast, chain, pdic>>

InitSym ==
  /\ heap = SampleHeap
  /\ last = LastNone
  /\ ev = EvNone
  /\ ivlast = IvNone
  /\ chain = ChainNone
  /\ pdic = PdicNone

NextSym ==
  \/ DoAdd
  \/ DoRAdd
  \/ DoMul
  \/ DoRMul
  \/ DoNeg
  \/ DoSub
  \/ DoRSub
  \/ DoPow
  \/ DoTrueDiv
  \/ DoSin
  \/ DoCos
  \/ DoAcos
  \/ DoVal
  \/ DoValgrad

SpecSym == InitSym /\ [][NextSym]_vars

----------------------------------------------------------------------------
(* parsedic: a dictionary of scalars and groups becomes the dictionary of   *)
(* leaf values with its index map. A name is a sequence of characters, a    *)
(* dictionary the sequence of its <<key, item>> pairs in insertion order.   *)

Digits == <<"0", "1", "2", "3", "4", "5", "6", "7", "8", "9">>

\* str(i) for i >= 0
RECURSIVE Str(_)
Str(i) == IF i < 10 THEN <<Digits[i + 1]>> ELSE Str(i \div 10) \o <<Digits[(i % 10) + 1]>>

\* d[k] = v
Put(d, k, v) == [z \in DOMAIN d \cup {k} |-> IF z = k THEN v ELSE d[z]]

IsList(item) == item[1] = "list"

\* for i in range(len(item)): dic2[key + str(i)] = item[i]; dic3[key + str(i)] = i
RECURSIVE ExpandGroup(_, _, _, _)
ExpandGroup(key, item, i, d) ==
  IF i >= Len(item) THEN d
  ELSE ExpandGroup(key, item, i + 1,
         [vals |-> Put(d.vals, key \o Str(i), item[i + 1]),
          map |-> Put(d.map, key \o Str(i), i)])

\* for key, item in dic.items(): ...
RECURSIVE ParseItems(_, _, _)
ParseItems(dic, k, d) ==
  IF k > Len(dic) THEN d
  ELSE LET key == dic[k][1]
           item == dic[k][2]
       IN  ParseItems(dic, k + 1,
             IF IsList(item) THEN ExpandGroup(key, item[2], 0, d)
             ELSE [d EXCEPT !.vals = Put(d.vals, key, item[2])])

\* {name: idx for idx, name in enumerate(dic.keys())}
EnumerateKeys(dic) == [nm \in {dic[k][1] : k \in 1..Len(dic)} |->
                         (CHOOSE k \in 1..Len(dic) : dic[k][1] = nm) - 1]

parsedic(dic) ==
  LET d == ParseItems(dic, 1, [vals |-> <<>>, map |-> <<>>])
  IN  IF DOMAIN d.map = {} THEN [d EXCEPT !.map = EnumerateKeys(dic)] ELSE d

\* the dictionaries given: keys x, y, x1; a plain scalar or a group per key
Keys == {<<"x">>, <<"y">>, <<"x", "1">>}
Items == {<<"scalar", Q(v)>> : v \in 0..1} \cup
         {<<"list", [i \in 1..n |-> One]>> : n \in 1..MaxLen}
Dics ==
  {dic \in UNION {[1..m -> Keys \X Items] : m \in 1..MaxKeys} :
     \A j, k \in 1..Len(dic) : j # k => dic[j][1] # dic[k][1]}

DoParsedic ==
  /\ ~pdic.done
  /\ pdic' = [pdic EXCEPT !.done = TRUE, !.out = parsedic(pdic.in)]
  /\ UNCHANGED <<ivlast, heap, last, ev, chain>>

\* the leaves of the parsed dictionary, in some order
RECURSIVE LeafSeq(_)
LeafSeq(names) ==
  IF names = {} THEN <<>>
  ELSE LET nm == CHOOSE z \in names : TRUE IN <<nm>> \o LeafSeq(names \ {nm})

\* valgrad of the sum of all the leaves the parsed dictionary binds, with
\* one gradient slot per leaf
DoSumValgrad ==
  LET names == DOMAIN pdic.out.vals
      m == Cardinality(names)
      q == LeafSeq(names)
      h == [k \in 1..m |-> SymNode(q[k])] \o <<AddNode([k \in 1..m |-> k], Zero)>>
      r == SymValgrad(h, m + 1, pdic.out, m, [cache |-> <<>>, cnt |-> [i \in 1..(m + 1) |-> 0]])
  IN  /\ pdic.done
      /\ ev.op = "none"
      /\ heap' = h
      /\ ev' = [op |-> "valgrad", root |-> m + 1, dic |-> pdic.out, n |-> m, out |-> r]
      /\ UNCHANGED <<ivlast, last, chain, pdic>>

InitParse ==
  /\ pdic \in {[in |-> dic, done |-> FALSE, out |-> [vals |-> <<>>, map |-> <<>>]] : dic \in Dics}
  /\ ivlast = IvNone
  /\ heap = HeapNone
  /\ last = LastNone
  /\ ev = EvNone
  /\ chain = ChainNone

NextParse ==
  \/ DoParsedic
  \/ DoSumValgrad

SpecParse == InitParse /\ [][NextParse]_vars

----------------------------------------------------------------------------
(* Claims about sym.py *)

ValueOf(h, v, dic) == IF v.t = "num" THEN Ok(v.x) ELSE SymVal(h, v.i, dic)

\* C3: subtraction preserves value: x - b evaluates to value(x) - value(b) and
\* c - x to c - value(x), for every scalar c, zero included.
C3_SubValue ==
  (ev.op = "val" /\ ev.out.st = "ok" /\ last.op \in {"sub", "rsub"}) =>
    LET vx == SymVal(heap, last.self, ev.dic).v
        vb == ValueOf(heap, last.other, ev.dic).v
    IN  ev.out.val = IF last.op = "sub" THEN NSub(vx, vb) ELSE NSub(vb, vx)

Compound == {"Add", "Mul", "Pow", "Sin", "Cos", "Acos"}

\* the nodes valgrad reaches from node i
RECURSIVE Reach(_, _)
Reach(h, i) ==
  {i} \cup UNION {Reach(h, j) : j \in {h[i].l[k] : k \in 1..Len(h[i].l)} \cup
                                    (IF h[i].kind \in {"Pow", "Sin", "Cos", "Acos"} THEN {h[i].a} ELSE {})}

\* z = w*w was built and z is the root of the valgrad call
SquareEvaluated ==
  /\ ev.op = "valgrad"
  /\ ev.out.st = "ok"
  /\ last.op = "mul"
  /\ last.other = Node(last.self)

AtMostOnce ==
  ev.op = "valgrad" =>
    /\ \A i \in 1..Len(heap) : ev.out.cnt[i] <= 1
    /\ ev.out.st = "ok" =>
         \A i \in 1..Len(heap) : ev.out.cnt[i] = (IF i \in Reach(heap, ev.root) THEN 1 ELSE 0)

\* C4 as stated: in one valgrad call with a fresh cache every node is computed
\* at most once, and for z = w*w with w any compound node (Add, Mul, Pow,
\* Sin, Cos, Acos) w is computed exactly once.
C4_Original ==
  /\ AtMostOnce
  /\ (SquareEvaluated /\ heap[last.self].kind \in Compound) => ev.out.cnt[last.self] = 1

\* C4 amended: every node is computed at most once (a reachable one exactly
\* once); for z = w*w with w an Add, Pow, Sin, Cos or Acos, w is computed
\* exactly once; when w is a Mul, w*w is one flat Mul over w's operands taken
\* twice, w itself is not reached (computed 0 times) and each operand of w is
\* computed exactly once.
C4_SharedOnce ==
  /\ AtMostOnce
  /\ (SquareEvaluated /\ heap[last.self].kind \in Compound \ {"Mul"}) =>
       /\ heap[ev.root] = MulNode(<<last.self, last.self>>, One)
       /\ ev.out.cnt[last.self] = 1
  /\ (SquareEvaluated /\ heap[last.self].kind = "Mul") =>
       /\ heap[ev.root].l = heap[last.self].l \o heap[last.self].l
       /\ ev.out.cnt[last.self] = 0
       /\ \A k \in 1..Len(heap[last.self].l) : ev.out.cnt[heap[last.self].l[k]] = 1

\* C4 witness: z = w*w with w = x + y was evaluated by valgrad, w computed once
C4_Witness ==
  /\ SquareEvaluated
  /\ heap[last.self].kind = "Add"
  /\ ev.out.cnt[last.self] = 1
  /\ ev.root = last.res.i

\* what the operand other adds to an operand list and to a constant of kind k
TailOf(k, other) ==
  IF IsConst(other) THEN <<>>
  ELSE IF heap[other.i].kind = k THEN heap[other.i].l
  ELSE <<other.i>>
ConstOf(k, other, neutral) ==
  IF IsConst(other) THEN other.x
  ELSE IF heap[other.i].kind = k THEN heap[other.i].c
  ELSE neutral

AddFlattened ==
  (last.op \in {"add", "radd"} /\ heap[last.self].kind = "Add") =>
    /\ last.err = "ok"
    /\ last.res.t = "node"
    /\ heap[last.res.i] = AddNode(heap[last.self].l \o TailOf("Add", last.other),
                                  NAdd(heap[last.self].c, ConstOf("Add", last.other, Zero)))
    /\ (last.self = 4 /\ last.other = Num(Q(3))) =>
          heap[last.res.i] = AddNode(<<1, 2>>, Q(5))

MulFlattened ==
  /\ last.err = "ok"
  /\ last.res.t = "node"
  /\ heap[last.res.i] = MulNode(heap[last.self].l \o TailOf("Mul", last.other),
                                NMul(heap[last.self].c, ConstOf("Mul", last.other, One)))

\* C5 as stated: extending an Add (Mul) gives one node of that kind: the old
\* operand list followed by the new operand (or its list), the constants
\* summed (multiplied), a scalar merging into the constant only.
C5_Original ==
  /\ AddFlattened
  /\ (last.op \in {"mul", "rmul"} /\ heap[last.self].kind = "Mul") => MulFlattened

\* C5 amended: as stated, except that a Mul multiplied by the scalar 0 gives
\* the plain scalar 0 and no node.
C5_Flattening ==
  /\ AddFlattened
  /\ (last.op \in {"mul", "rmul"} /\ heap[last.self].kind = "Mul") =>
       IF EqNum(last.other, Zero) THEN last.err = "ok" /\ last.res = Num(Zero)
       ELSE MulFlattened

\* C5 witness: Add(Add(x, y), 2) plus 3 has been built as a new node
C5_Witness ==
  /\ last.op = "add"
  /\ last.self = 4
  /\ last.other = Num(Q(3))
  /\ last.res = Node(Len(SampleHeap) + 1)

\* C6: construction never fails: add, sub, neg, mul, div and pow on a node and
\* another node or any plain scalar return a node or a scalar and never raise.
C6_NeverRaises ==
  last.op \in {"add", "radd", "sub", "rsub", "neg", "mul", "rmul", "truediv", "pow"} =>
    last.err = "ok"

NoPowOfPow ==
  \A i \in 1..Len(heap) : heap[i].kind = "Pow" => heap[heap[i].a].kind # "Pow"

PowOfPow == last.op = "pow" /\ heap[last.self].kind = "Pow" /\ IsConst(last.other)

\* C7 as stated: a Pow node (base a, exponent p) raised to q yields a Pow node
\* with base a and exponent p*q; no Pow node has a Pow node as its base.
C7_Original ==
  /\ NoPowOfPow
  /\ PowOfPow =>
       /\ last.res.t = "node"
       /\ heap[last.res.i] = PowNode(heap[last.self].a, Num(NMul(heap[last.self].b.x, last.other.x)))

\* C7 amended: a Pow node (base a, exponent p) raised to q yields the scalar 1
\* when q = 0, a itself when p*q = 1, and otherwise a Pow node with base a
\* and exponent p*q; no Pow node has a Pow node as its base.
C7_PowCollapse ==
  /\ NoPowOfPow
  /\ PowOfPow =>
       LET a == heap[last.self].a
           pq == NMul(heap[last.self].b.x, last.other.x)
       IN  /\ last.err = "ok"
           /\ IF last.other.x = Zero THEN last.res = Num(One)
              ELSE IF pq = One THEN last.res = Node(a)
              ELSE last.res.t = "node" /\ heap[last.res.i] = PowNode(a, Num(pq))

\* C7 witness: ((x**2)**3)**2 has been built as the new node Pow(x, 12)
C7_Witness ==
  /\ PowOfPow
  /\ last.self = 12
  /\ last.other = Num(Q(2))
  /\ last.res = Node(Len(SampleHeap) + 1)
  /\ heap[last.res.i] = PowNode(1, Num(Q(12)))

\* C9: the arccosine saturates in evaluation: for an Acos node whose operand
\* evaluates to v, val and valgrad do not fail on v outside [-1, 1]; for v >= 1
\* both return 0, for v <= -1 both return pi, valgrad then returns the zero
\* vector of length n, and the value of valgrad is the value of val.
C9_AcosSaturates ==
  (ev.op \in {"val", "valgrad"} /\ heap[ev.root].kind = "Acos") =>
    LET v == SymVal(heap, heap[ev.root].a, ev.dic)
    IN  (v.st = "ok" /\ (NLeq(One, v.v) \/ NLeq(v.v, Q(-1)))) =>
          /\ ev.out.st = "ok"
          /\ ev.out.val = IF NLeq(One, v.v) THEN Zero ELSE MathPi
          /\ ev.op = "valgrad" =>
               /\ ev.out.grad = Zeros(ev.n)
               /\ ev.out.val = SymVal(heap, ev.root, ev.dic).v

\* C9 witness: valgrad of an Acos node whose operand is above 1, with a zero
\* gradient of length 3
C9_Witness ==
  /\ ev.op = "valgrad"
  /\ heap[ev.root].kind = "Acos"
  /\ NLess(One, SymVal(heap, heap[ev.root].a, ev.dic).v)
  /\ ev.out.st = "ok"
  /\ ev.out.grad = Zeros(3)

\* C10: neutral and absorbing scalars create no node: x + 0 and 0 + x return
\* x itself, x * 1 and 1 * x return x itself, x * 0 and 0 * x return the
\* plain scalar 0.
C10_NeutralAbsorbing ==
  /\ (last.op \in {"add", "radd"} /\ EqNum(last.other, Zero)) =>
       last.err = "ok" /\ last.res = Node(last.self) /\ Len(heap) = last.pre
  /\ (last.op \in {"mul", "rmul"} /\ EqNum(last.other, One)) =>
       last.err = "ok" /\ last.res = Node(last.self) /\ Len(heap) = last.pre
  /\ (last.op \in {"mul", "rmul"} /\ EqNum(last.other, Zero)) =>
       last.err = "ok" /\ last.res = Num(Zero) /\ Len(heap) = last.pre

\* C10 witness: 0 + w for the compound node w = x + y returned w
C10_Witness ==
  /\ last.op = "radd"
  /\ EqNum(last.other, Zero)
  /\ last.self = 3
  /\ last.res = Node(3)


RECURSIVE ProdSeq(_)
ProdSeq(s) == IF s = <<>> THEN One ELSE NMul(Head(s), ProdSeq(Tail(s)))
RECURSIVE SumSeq(_)
SumSeq(s) == IF s = <<>> THEN Zero ELSE NAdd(Head(s), SumSeq(Tail(s)))
Without(s, k) == SubSeq(s, 1, k - 1) \o SubSeq(s, k + 1, Len(s))

\* valgrad returned for a Mul node
MulEvaluated == ev.op = "valgrad" /\ ev.out.st = "ok" /\ heap[ev.root].kind = "Mul"

\* the number of times the leaf called nm occurs in the operand list l
Degree(l, nm) == Cardinality({k \in 1..Len(l) : heap[l[k]].name = nm})

\* d/d(nm) of c * x^Degree(x) * y^Degree(y), for nm one of the leaves x, y
Partial(c, l, vals, nm) ==
  LET other == IF nm = "x" THEN "y" ELSE "x"
      d == Degree(l, nm)
      v(z) == IF z \in DOMAIN vals THEN vals[z] ELSE Zero
  IN  IF d = 0 THEN Zero
      ELSE NMul(NMul(c, Q(d)), NMul(NPowNat(v(nm), d - 1), NPowNat(v(other), Degree(l, other))))

\* C11: the product rule: for a Mul node with constant c whose operands
\* evaluate to (v_k, g_k), valgrad returns the value c * v_1 * ... * v_m and the
\* gradient with gradient[i] = sum over k of c * (product of v_j, j # k) * g_k[i];
\* for a product of leaves this is the exact partial derivative, also when a
\* leaf occurs several times and when an operand value is 0.
C11_ProductRule ==
  MulEvaluated =>
    LET nd == heap[ev.root]
        m == Len(nd.l)
        v == [k \in 1..m |-> ev.out.cache[nd.l[k]][1]]
        g == [k \in 1..m |-> ev.out.cache[nd.l[k]][2]]
    IN  /\ ev.out.val = NMul(nd.c, ProdSeq(v))
        /\ \A i \in 1..ev.n :
             ev.out.grad[i] = SumSeq([k \in 1..m |-> NMul(NMul(nd.c, ProdSeq(Without(v, k))), g[k][i])])
        /\ (\A k \in 1..m : heap[nd.l[k]].kind = "Sym") =>
             /\ ev.out.grad[1] = Partial(nd.c, nd.l, ev.dic.vals, "x")
             /\ ev.out.grad[2] = Partial(nd.c, nd.l, ev.dic.vals, "y")
             /\ \A i \in 3..ev.n : ev.out.grad[i] = Zero

\* C11 witness: valgrad of x*y*x at x = 1, y = 0: a leaf occurs twice, an
\* operand value is 0, and the gradient is (0, 1)
C11_Witness ==
  /\ MulEvaluated
  /\ heap[ev.root].l = <<1, 2, 1>>
  /\ ev.dic.vals = [x |-> One, y |-> Zero]
  /\ ev.n = 2
  /\ ev.out.val = Zero
  /\ ev.out.grad = <<Zero, One>>


\* C12: the ordering invariant: starting from intervals with min <= max, every
\* Interval returned by a sequence of +, -, *, /, ** (scalar exponent) and
\* unary negation that does not raise has min <= max.
C12_Ordered ==
  chain.st = "ok" => NLeq(chain.iv.min_val, chain.iv.max_val)

\* C12 witness: two operations in a row, the second an even power of a
\* computed interval that spans zero: (Interval(-1.5, 1.5) * 2) ** 2
C12_Witness ==
  /\ chain.n = 2
  /\ chain.st = "ok"
  /\ chain.iv = Interval(Eps, Q(9))


\* the (group, position) pairs of a dictionary
GroupSlots(dic) ==
  {<<k, i>> \in (1..Len(dic)) \X (0..(MaxLen + 1)) : IsList(dic[k][2]) /\ i < Len(dic[k][2][2])}

\* C13: gradient slots are distinct: the index map parsedic builds sends
\* distinct leaf names to distinct slots, distinct (group, position) pairs
\* expand to distinct leaf names, and so no two leaves add their one-hot
\* gradient into the same slot of valgrad.
C13_DistinctSlots ==
  pdic.done =>
    /\ \A a, b \in DOMAIN pdic.out.map : a # b => pdic.out.map[a] # pdic.out.map[b]
    /\ \A s, t \in GroupSlots(pdic.in) :
         s # t => pdic.in[s[1]][1] \o Str(s[2]) # pdic.in[t[1]][1] \o Str(t[2])
    /\ (ev.op = "valgrad" /\ ev.out.st = "ok") =>
         \A i \in 1..ev.n : ev.out.grad[i] \in {Zero, One}

====
